---------------------------- MODULE Spec2Model ----------------------------
(***************************************************************************)
(* Model of the startup scripts of mdutility, of their health wait and of   *)
(* the two converter pages of its frontend.                                *)
(*                                                                         *)
(* Five orchestrator scripts live in the repository:                       *)
(*   "sh"        start-application.sh       (src/unnamed/part_001)         *)
(*   "ps1"       Start_application.ps1      (src/Start_application.ps1)    *)
(*   "ps1_old"   older Start_application.ps1 (src/unnamed/part_000)        *)
(*   "runapp_sh" runapp.sh                  (src/unnamed/part_002)         *)
(*   "bat"       runapp.bat                 (src/runapp.bat)               *)
(*                                                                         *)
(* A run executes one script from its first statement.  The machine the    *)
(* script runs on is the environment: the commands on PATH and the files   *)
(* and directories of the project tree.  The outcome of every external     *)
(* command (exit status of pip, npm, python -m venv, the answer of the     *)
(* health endpoint, ...) is chosen by the environment when the command     *)
(* runs.  The file system persists from one run to the next.               *)
(***************************************************************************)
EXTENDS Integers, Sequences, FiniteSets, TLC

\* Number of runs started one after the other on the same machine.
MaxRuns == 2

Scripts == {"sh", "ps1", "ps1_old", "runapp_sh", "bat"}

\* Commands whose presence on PATH the scripts look up or rely on.
PythonCmds == {"python", "python3", "py"}
PkgMgrCmds == {"npm", "pnpm", "yarn"}
Commands == PythonCmds \cup PkgMgrCmds

\* Entries of the project tree the scripts test for:
\*   "venv"     backend/.utility (the isolated environment directory)
\*   "venvpy"   the interpreter (and activate script) inside backend/.utility
\*   "req"      backend/requirements.txt
\*   "frontend" the frontend directory
FsEntries == {"venv", "venvpy", "req", "frontend"}

Procs == {"backend", "frontend"}

\* Log files at the project root that receive the output of the processes.
LogFiles == {"backend.log", "frontend.log"}

LogOf(p) == IF p = "backend" THEN "backend.log" ELSE "frontend.log"

VARIABLES
    path,        \* commands available on PATH
    fs,          \* entries of the project tree that exist
    runs,        \* runs started so far
    script,      \* script of the current run ("none" before the first run)
    pc,          \* position of the current run in its script
    pythonCmd,   \* interpreter the script resolved ("" when none yet)
    pkgMgr,      \* package manager the script resolved ("" when none)
    log,         \* events of the current run (steps taken, messages printed)
    procs,       \* state of the processes spawned by the current run
    exitCode,    \* exit status of the current run (-1 while it is running)
    venvCreates, \* executions of "<python> -m venv backend/.utility", all runs
    sinks,       \* per log file: the runs whose process output it holds
    \* The health wait of a script, statement by statement (SpecHealth):
    hScript,     \* script whose wait loop runs ("none" before it starts)
    hpc,         \* position in the wait loop
    clock,       \* seconds since the loop recorded its start time
    hResult,     \* "none" while waiting, then "healthy" or "timeout"
    \* The two converter pages of the frontend (SpecPages).  A nullable
    \* React state is a sequence: <<>> for null, <<v>> for the value v.
    page,        \* page shown: "home", "word-to-md" or "md-to-word"
    fileName,    \* word-to-md: name of the file being converted
    markdown,    \* word-to-md: converted Markdown (text) and, to tell
                 \* conversions apart, the name of the file it came from (src)
    loading,     \* word-to-md: a conversion is in progress
    error,       \* error message of the page shown
    mdFiles,     \* md-to-word: the selected Markdown files, in order
    themeFile,   \* md-to-word: the selected theme file
    isConverting,\* md-to-word: a conversion is in progress
    result,      \* md-to-word: the response of the last conversion
    inflight,    \* requests sent whose response has not arrived
    sent,        \* number of requests sent so far
    lastCall     \* the last handler call: its name, for handleFiles the
                 \* file list it was given, for a response what came back

scriptVars == <<path, fs, runs, script, pc, pythonCmd, pkgMgr, log, procs,
                exitCode, venvCreates, sinks>>

healthVars == <<hScript, hpc, clock, hResult>>

pageVars == <<page, fileName, markdown, loading, error, mdFiles, themeFile,
              isConverting, result, inflight, sent, lastCall>>

vars == <<scriptVars, healthVars, pageVars>>

---------------------------------------------------------------------------
\* Helpers shared by the scripts.

\* The run moves to position p and records the events ev.
Step0(p, ev) ==
    /\ pc' = p
    /\ log' = log \cup ev
    /\ exitCode' = exitCode
    /\ UNCHANGED <<healthVars, pageVars>>

\* The same for a statement that opens no log file.
Step(p, ev) ==
    /\ Step0(p, ev)
    /\ sinks' = sinks

\* The script ends with status code, recording ev.
Exit(code, ev) ==
    /\ pc' = "exited"
    /\ log' = log \cup ev
    /\ exitCode' = code
    /\ sinks' = sinks
    /\ UNCHANGED <<healthVars, pageVars>>

\* A fatal failure: `exit 1`, a command failing under `set -e`, or a
\* terminating PowerShell error under $ErrorActionPreference = 'Stop'.
Abort(ev) == Exit(1, ev \cup {"abort"})

\* Outcomes of "<cmd> -m venv backend/.utility": exit status and the entries
\* it leaves behind.  When cmd is not on PATH nothing runs.  A failing
\* creation may leave a partial directory or none.
VenvOutcomes(cmd) ==
    IF cmd \in path
    THEN { [ok |-> TRUE,  made |-> {"venv", "venvpy"}],
           [ok |-> FALSE, made |-> {"venv"}],
           [ok |-> FALSE, made |-> {}] }
    ELSE { [ok |-> FALSE, made |-> {}] }

\* Effect of executing the creation command with outcome r.
RunVenvCreate(cmd, r) ==
    /\ fs' = fs \cup r.made
    /\ venvCreates' = IF cmd \in path THEN venvCreates + 1 ELSE venvCreates

NoProcs == [p \in Procs |-> "none"]

Spawn(p) == procs' = [procs EXCEPT ![p] = "running"]

\* `> file 2>&1` on a spawned command: the file is created or truncated
\* when it is opened, and from then on holds the output of this run only.
Redirect(f) == sinks' = [sinks EXCEPT ![f] = {runs}]

FirstPc(s) ==
    CASE s = "sh"        -> "sh_find_python"
      [] s = "ps1"       -> "ps1_ensure_python"
      [] s = "ps1_old"   -> "old_ensure_python"
      [] s = "runapp_sh" -> "rsh_create_venv"
      [] s = "bat"       -> "bat_create_venv"

---------------------------------------------------------------------------
Init ==
    /\ path \in SUBSET Commands
    /\ fs \in {f \in SUBSET FsEntries : "venvpy" \in f => "venv" \in f}
    /\ runs = 0
    /\ script = "none"
    /\ pc = "idle"
    /\ pythonCmd = ""
    /\ pkgMgr = ""
    /\ log = {}
    /\ procs = NoProcs
    /\ exitCode = -1
    /\ venvCreates = 0
    /\ sinks = [f \in LogFiles |-> {}]
    /\ hScript = "none"
    /\ hpc = "idle"
    /\ clock = 0
    /\ hResult = "none"
    /\ page = "home"
    /\ fileName = <<>>
    /\ markdown = <<>>
    /\ loading = FALSE
    /\ error = <<>>
    /\ mdFiles = <<>>
    /\ themeFile = <<>>
    /\ isConverting = FALSE
    /\ result = <<>>
    /\ inflight = {}
    /\ sent = 0
    /\ lastCall = [op |-> "none", files |-> <<>>, resp |-> <<>>]

\* The operator starts script s (a no-argument invocation).  The previous
\* run, if any, has ended; what it left on disk stays.
StartRun(s) ==
    /\ pc \in {"idle", "exited"}
    /\ runs < MaxRuns
    /\ runs' = runs + 1
    /\ script' = s
    /\ pc' = FirstPc(s)
    /\ pythonCmd' = ""
    /\ pkgMgr' = ""
    /\ log' = {}
    /\ procs' = NoProcs
    /\ exitCode' = -1
    /\ UNCHANGED <<path, fs, venvCreates, sinks>>
    /\ UNCHANGED <<healthVars, pageVars>>

\* runapp.sh installs EXIT traps (lines 35 and 92).  The trap text is
\* expanded when the trap is set, so the set of processes a trap names is
\* fixed by the trap statements executed so far.
TrapTargets ==
    IF "trap_all" \in log THEN {"backend", "frontend"}
    ELSE IF "trap_backend" \in log THEN {"backend"}
    ELSE {}

KillEvent(p) == IF p = "backend" THEN "kill_backend" ELSE "kill_frontend"

\* The script ends and its EXIT trap runs `kill` on every process it names.
\* $BACKEND_PID is the pid of the wrapper subshell of `( cmd & ) &`, which
\* has ended long before: the kill reaches no backend server.  $FRONTEND_PID
\* is the pid of `npm start`, which ends on the signal.
ExitWithTrap(code, ev) ==
    /\ Exit(code, ev \cup {KillEvent(p) : p \in TrapTargets})
    /\ procs' = [p \in Procs |->
                    IF p = "frontend" /\ p \in TrapTargets /\ procs[p] = "running"
                    THEN "terminated" ELSE procs[p]]

AbortWithTrap(ev) == ExitWithTrap(1, ev \cup {"abort"})

\* An interrupt signal reaches the running script.  Only runapp.sh has an
\* exit handler; the other scripts die and their children are not
\* signalled.
Interrupt ==
    /\ pc \notin {"idle", "exited"}
    /\ IF script = "runapp_sh"
       THEN ExitWithTrap(130, {"interrupted"})
       ELSE /\ Exit(130, {"interrupted"})
            /\ procs' = procs
    /\ UNCHANGED <<path, fs, runs, script, pythonCmd, pkgMgr, venvCreates>>

---------------------------------------------------------------------------
\* start-application.sh  (bash, set -euo pipefail)

\* lines 20-29: python3 first, then python.
ShFindPython(p) ==
    IF "python3" \in p THEN "python3"
    ELSE IF "python" \in p THEN "python"
    ELSE ""

\* Line 31 then runs the resolved interpreter with no argument to print its
\* output; it has no effect on the run once the interpreter returns.
Sh_FindPython ==
    /\ script = "sh" /\ pc = "sh_find_python"
    /\ LET c == ShFindPython(path) IN
       IF c = ""
       THEN /\ Abort({"python_not_found"})
            /\ pythonCmd' = pythonCmd
       ELSE /\ Step("sh_create_venv", {"resolved"})
            /\ pythonCmd' = c
    /\ UNCHANGED <<path, fs, runs, script, pkgMgr, procs, venvCreates>>

\* Sh_CreateVenv without the test of line 34: the creation command runs on
\* every run.
Sh_CreateVenv_Unguarded ==
    /\ script = "sh" /\ pc = "sh_create_venv"
    /\ \E r \in VenvOutcomes(pythonCmd) :
         /\ RunVenvCreate(pythonCmd, r)
         /\ IF r.ok THEN Step("sh_check_venv_py", {"venv_create"})
                    ELSE Abort({"venv_create", "venv_create_fail"})
    /\ UNCHANGED <<path, runs, script, pythonCmd, pkgMgr, procs>>

\* lines 33-39
Sh_CreateVenv ==
    /\ script = "sh" /\ pc = "sh_create_venv"
    /\ IF "venv" \notin fs
       THEN \E r \in VenvOutcomes(pythonCmd) :
              /\ RunVenvCreate(pythonCmd, r)
              /\ IF r.ok THEN Step("sh_check_venv_py", {"venv_create"})
                         ELSE Abort({"venv_create", "venv_create_fail"})
       ELSE /\ Step("sh_check_venv_py", {"venv_exists"})
            /\ UNCHANGED <<fs, venvCreates>>
    /\ UNCHANGED <<path, runs, script, pythonCmd, pkgMgr, procs>>

\* lines 41-46
Sh_CheckVenvPy ==
    /\ script = "sh" /\ pc = "sh_check_venv_py"
    /\ IF "venvpy" \notin fs
       THEN Abort({"venv_python_missing"})
       ELSE Step("sh_pip_upgrade", {})
    /\ UNCHANGED <<path, fs, runs, script, pythonCmd, pkgMgr, procs, venvCreates>>

\* line 49
Sh_PipUpgrade ==
    /\ script = "sh" /\ pc = "sh_pip_upgrade"
    /\ \E ok \in BOOLEAN :
         IF ok THEN Step("sh_install_req", {"pip_upgrade"})
               ELSE Abort({"pip_upgrade", "pip_upgrade_fail"})
    /\ UNCHANGED <<path, fs, runs, script, pythonCmd, pkgMgr, procs, venvCreates>>

\* lines 50-56
Sh_InstallReq ==
    /\ script = "sh" /\ pc = "sh_install_req"
    /\ IF "req" \in fs
       THEN \E ok \in BOOLEAN :
              IF ok THEN Step("sh_detect_pkg", {"req_install"})
                    ELSE Abort({"req_install", "req_install_fail"})
       ELSE Step("sh_detect_pkg", {"req_skip_warn"})
    /\ UNCHANGED <<path, fs, runs, script, pythonCmd, pkgMgr, procs, venvCreates>>

\* lines 58-66: npm, then pnpm, then yarn.
ShDetectPkgMgr(p) ==
    IF "npm" \in p THEN "npm"
    ELSE IF "pnpm" \in p THEN "pnpm"
    ELSE IF "yarn" \in p THEN "yarn"
    ELSE ""

Sh_DetectPkgMgr ==
    /\ script = "sh" /\ pc = "sh_detect_pkg"
    /\ pkgMgr' = ShDetectPkgMgr(path)
    /\ Step("sh_frontend_install", {})
    /\ UNCHANGED <<path, fs, runs, script, pythonCmd, procs, venvCreates>>

\* lines 68-78 and 86-89
Sh_FrontendInstall ==
    /\ script = "sh" /\ pc = "sh_frontend_install"
    /\ IF pkgMgr = ""
       THEN Step("sh_start_backend", {"pkg_none_warn"})
       ELSE IF "frontend" \notin fs
       THEN Step("sh_start_backend", {"fe_dir_missing"})
       ELSE \E ok \in BOOLEAN :
              IF ok THEN Step("sh_frontend_build", {"fe_install"})
                    ELSE Abort({"fe_install", "fe_install_fail"})
    /\ UNCHANGED <<path, fs, runs, script, pythonCmd, pkgMgr, procs, venvCreates>>

\* lines 79-85
Sh_FrontendBuild ==
    /\ script = "sh" /\ pc = "sh_frontend_build"
    /\ \E ok \in BOOLEAN :
         IF ok THEN Step("sh_start_backend", {"fe_build"})
               ELSE Abort({"fe_build", "fe_build_fail"})
    /\ UNCHANGED <<path, fs, runs, script, pythonCmd, pkgMgr, procs, venvCreates>>

\* lines 91-94
Sh_StartBackend ==
    /\ script = "sh" /\ pc = "sh_start_backend"
    /\ Spawn("backend")
    /\ Redirect("backend.log")
    /\ Step0("sh_wait_health", {"backend_spawn"})
    /\ UNCHANGED <<path, fs, runs, script, pythonCmd, pkgMgr, venvCreates>>

\* lines 96-111: the loop ends on the first successful poll or on the
\* timeout, and goes on in both cases.
Sh_WaitHealth ==
    /\ script = "sh" /\ pc = "sh_wait_health"
    /\ \E healthy \in BOOLEAN :
         IF healthy THEN Step("sh_start_frontend", {"health_ok"})
                    ELSE Step("sh_start_frontend", {"health_timeout", "health_warn"})
    /\ UNCHANGED <<path, fs, runs, script, pythonCmd, pkgMgr, procs, venvCreates>>

\* lines 113-125
Sh_StartFrontend ==
    /\ script = "sh" /\ pc = "sh_start_frontend"
    /\ IF "frontend" \in fs /\ pkgMgr # ""
       THEN /\ Spawn("frontend")
            /\ Redirect("frontend.log")
            /\ Step0("sh_open_browser", {"frontend_step", "frontend_spawn"})
       ELSE /\ procs' = procs
            /\ Step("sh_open_browser", {"frontend_step", "frontend_skip"})
    /\ UNCHANGED <<path, fs, runs, script, pythonCmd, pkgMgr, venvCreates>>

\* lines 127-138: xdg-open or open, each `|| true`; then the script ends.
Sh_OpenBrowser ==
    /\ script = "sh" /\ pc = "sh_open_browser"
    /\ \E opener \in {"xdg-open", "open", "none"}, ok \in BOOLEAN :
         Exit(0, IF opener = "none" THEN {"browser_none"}
                 ELSE IF ok THEN {"browser_open"}
                 ELSE {"browser_open", "browser_fail"})
    /\ UNCHANGED <<path, fs, runs, script, pythonCmd, pkgMgr, procs, venvCreates>>

ShNext ==
    \/ Sh_FindPython \/ Sh_CreateVenv \/ Sh_CheckVenvPy \/ Sh_PipUpgrade
    \/ Sh_InstallReq \/ Sh_DetectPkgMgr \/ Sh_FrontendInstall
    \/ Sh_FrontendBuild \/ Sh_StartBackend \/ Sh_WaitHealth
    \/ Sh_StartFrontend \/ Sh_OpenBrowser

---------------------------------------------------------------------------
\* Start_application.ps1  (PowerShell, Set-StrictMode -Version Latest,
\* $ErrorActionPreference = 'Stop')
\*
\* The `else {` opened at line 43 is never closed in the file; the block is
\* read here as running to the end of the file, which is what its
\* indentation shows.  So everything from line 44 on runs only when
\* backend/.utility already existed at line 40.
\*
\* A native command (python, pip, npm, ...) that exits non-zero raises no
\* PowerShell error: the script goes on to its next statement.  Write-Error
\* under 'Stop' and a failing cmdlet end the script.

\* lines 31-37
Ps1_EnsurePython ==
    /\ script = "ps1" /\ pc = "ps1_ensure_python"
    /\ IF "python" \in path
       THEN /\ Step("ps1_create_venv", {"resolved"})
            /\ pythonCmd' = "python"
       ELSE /\ Abort({"python_not_found"})
            /\ pythonCmd' = pythonCmd
    /\ UNCHANGED <<path, fs, runs, script, pkgMgr, procs, venvCreates>>

\* lines 39-43 (and the end of the file): with the directory missing the
\* environment is created and the else block, the rest of the script, is
\* skipped; with the directory present the else block runs.
Ps1_CreateVenv ==
    /\ script = "ps1" /\ pc = "ps1_create_venv"
    /\ IF "venv" \notin fs
       THEN \E r \in VenvOutcomes("python") :
              /\ RunVenvCreate("python", r)
              /\ Exit(0, IF r.ok THEN {"venv_create"}
                         ELSE {"venv_create", "venv_create_fail"})
       ELSE /\ Step("ps1_get_python_cmd", {})
            /\ UNCHANGED <<fs, venvCreates>>
    /\ UNCHANGED <<path, runs, script, pythonCmd, pkgMgr, procs>>

\* lines 58-71: python, python3, then py (as 'py -3').
GetPythonCmd(p) ==
    IF "python" \in p THEN "python"
    ELSE IF "python3" \in p THEN "python3"
    ELSE IF "py" \in p THEN "py -3"
    ELSE ""

\* lines 73-79
Ps1_GetPythonCmd ==
    /\ script = "ps1" /\ pc = "ps1_get_python_cmd"
    /\ LET c == GetPythonCmd(path) IN
       IF c = ""
       THEN /\ Abort({"python_not_found"})
            /\ pythonCmd' = pythonCmd
       ELSE /\ Step("ps1_inner_create_venv", {"resolved"})
            /\ pythonCmd' = c
    /\ UNCHANGED <<path, fs, runs, script, pkgMgr, procs, venvCreates>>

\* The executable a resolved interpreter name runs.
ExeOf(c) == IF c = "py -3" THEN "py" ELSE c

\* lines 81-87
Ps1_InnerCreateVenv ==
    /\ script = "ps1" /\ pc = "ps1_inner_create_venv"
    /\ IF "venv" \notin fs
       THEN \E r \in VenvOutcomes(ExeOf(pythonCmd)) :
              /\ RunVenvCreate(ExeOf(pythonCmd), r)
              /\ Step("ps1_venv_python",
                      IF r.ok THEN {"venv_create"}
                      ELSE {"venv_create", "venv_create_fail"})
       ELSE /\ Step("ps1_venv_python", {"venv_exists"})
            /\ UNCHANGED <<fs, venvCreates>>
    /\ UNCHANGED <<path, runs, script, pythonCmd, pkgMgr, procs>>

\* lines 89-100.  Line 90 reads and assigns $IsWindows: under strict mode
\* the read fails where the host does not define the variable, and the
\* assignment fails where the host defines it as a constant; it passes only
\* in a session that defines it as an ordinary variable.  The outcome is
\* the environment's.
Ps1_VenvPython ==
    /\ script = "ps1" /\ pc = "ps1_venv_python"
    /\ \E isWindowsOk \in BOOLEAN :
         IF ~isWindowsOk THEN Abort({"iswindows_error"})
         ELSE IF "venvpy" \notin fs THEN Abort({"venv_python_missing"})
         ELSE Step("ps1_pip_upgrade", {})
    /\ UNCHANGED <<path, fs, runs, script, pythonCmd, pkgMgr, procs, venvCreates>>

\* lines 102-103
Ps1_PipUpgrade ==
    /\ script = "ps1" /\ pc = "ps1_pip_upgrade"
    /\ \E ok \in BOOLEAN :
         Step("ps1_install_req",
              IF ok THEN {"pip_upgrade"} ELSE {"pip_upgrade", "pip_upgrade_fail"})
    /\ UNCHANGED <<path, fs, runs, script, pythonCmd, pkgMgr, procs, venvCreates>>

\* lines 105-111
Ps1_InstallReq ==
    /\ script = "ps1" /\ pc = "ps1_install_req"
    /\ IF "req" \in fs
       THEN \E ok \in BOOLEAN :
              Step("ps1_get_pkg_mgr",
                   IF ok THEN {"req_install"} ELSE {"req_install", "req_install_fail"})
       ELSE Step("ps1_get_pkg_mgr", {"req_skip_warn"})
    /\ UNCHANGED <<path, fs, runs, script, pythonCmd, pkgMgr, procs, venvCreates>>

\* lines 114-119
GetPackageManager(p) ==
    IF "npm" \in p THEN "npm"
    ELSE IF "pnpm" \in p THEN "pnpm"
    ELSE IF "yarn" \in p THEN "yarn"
    ELSE ""

\* lines 121-124
Ps1_GetPackageManager ==
    /\ script = "ps1" /\ pc = "ps1_get_pkg_mgr"
    /\ LET m == GetPackageManager(path) IN
       /\ pkgMgr' = m
       /\ Step("ps1_frontend_install", IF m = "" THEN {"pkg_none_warn"} ELSE {})
    /\ UNCHANGED <<path, fs, runs, script, pythonCmd, procs, venvCreates>>

\* lines 126-138
Ps1_FrontendInstall ==
    /\ script = "ps1" /\ pc = "ps1_frontend_install"
    /\ IF "frontend" \notin fs
       THEN Step("ps1_start_backend", {"fe_dir_missing"})
       ELSE IF pkgMgr = ""
       THEN Step("ps1_start_backend", {"fe_skip_warn"})
       ELSE \E ok \in BOOLEAN :
              Step("ps1_frontend_build",
                   IF ok THEN {"fe_install"} ELSE {"fe_install", "fe_install_fail"})
    /\ UNCHANGED <<path, fs, runs, script, pythonCmd, pkgMgr, procs, venvCreates>>

\* lines 140-147
Ps1_FrontendBuild ==
    /\ script = "ps1" /\ pc = "ps1_frontend_build"
    /\ \E ok \in BOOLEAN :
         Step("ps1_start_backend",
              IF ok THEN {"fe_build"} ELSE {"fe_build", "fe_build_fail"})
    /\ UNCHANGED <<path, fs, runs, script, pythonCmd, pkgMgr, procs, venvCreates>>

\* lines 149-152
Ps1_StartBackend ==
    /\ script = "ps1" /\ pc = "ps1_start_backend"
    /\ Spawn("backend")
    /\ Step("ps1_wait_health", {"backend_spawn"})
    /\ UNCHANGED <<path, fs, runs, script, pythonCmd, pkgMgr, venvCreates>>

\* lines 154-163: the loop ends on a 200 answer or when 60 s have passed;
\* nothing is printed on the timeout.
Ps1_WaitHealth ==
    /\ script = "ps1" /\ pc = "ps1_wait_health"
    /\ \E healthy \in BOOLEAN :
         Step("ps1_start_frontend",
              IF healthy THEN {"health_ok"} ELSE {"health_timeout"})
    /\ UNCHANGED <<path, fs, runs, script, pythonCmd, pkgMgr, procs, venvCreates>>

\* lines 165-166: `Test-Path $frontendDir -and $pkgMgr` hands `-and` to
\* Test-Path as a parameter name; Test-Path has no such parameter, the
\* binding error is terminating, and the script ends here.  Lines 167-183
\* (frontend start, browser) are never reached.
Ps1_StartFrontend ==
    /\ script = "ps1" /\ pc = "ps1_start_frontend"
    /\ Abort({"frontend_step", "test_path_and_error"})
    /\ UNCHANGED <<path, fs, runs, script, pythonCmd, pkgMgr, procs, venvCreates>>

Ps1Next ==
    \/ Ps1_EnsurePython \/ Ps1_CreateVenv \/ Ps1_GetPythonCmd
    \/ Ps1_InnerCreateVenv \/ Ps1_VenvPython \/ Ps1_PipUpgrade
    \/ Ps1_InstallReq \/ Ps1_GetPackageManager \/ Ps1_FrontendInstall
    \/ Ps1_FrontendBuild \/ Ps1_StartBackend \/ Ps1_WaitHealth
    \/ Ps1_StartFrontend

---------------------------------------------------------------------------
\* The older Start_application.ps1  (src/unnamed/part_000; PowerShell, strict
\* mode, $ErrorActionPreference = 'Stop').  Native commands that exit
\* non-zero do not stop it.

\* lines 31-37
Old_EnsurePython ==
    /\ script = "ps1_old" /\ pc = "old_ensure_python"
    /\ IF "python" \in path
       THEN /\ Step("old_create_venv", {"resolved"})
            /\ pythonCmd' = "python"
       ELSE /\ Abort({"python_not_found"})
            /\ pythonCmd' = pythonCmd
    /\ UNCHANGED <<path, fs, runs, script, pkgMgr, procs, venvCreates>>

\* lines 39-45
Old_CreateVenv ==
    /\ script = "ps1_old" /\ pc = "old_create_venv"
    /\ IF "venv" \notin fs
       THEN \E r \in VenvOutcomes("python") :
              /\ RunVenvCreate("python", r)
              /\ Step("old_venv_python",
                      IF r.ok THEN {"venv_create"}
                      ELSE {"venv_create", "venv_create_fail"})
       ELSE /\ Step("old_venv_python", {"venv_exists"})
            /\ UNCHANGED <<fs, venvCreates>>
    /\ UNCHANGED <<path, runs, script, pythonCmd, pkgMgr, procs>>

\* lines 47-51
Old_VenvPython ==
    /\ script = "ps1_old" /\ pc = "old_venv_python"
    /\ IF "venvpy" \notin fs
       THEN Abort({"venv_python_missing"})
       ELSE Step("old_pip_upgrade", {})
    /\ UNCHANGED <<path, fs, runs, script, pythonCmd, pkgMgr, procs, venvCreates>>

\* lines 53-54
Old_PipUpgrade ==
    /\ script = "ps1_old" /\ pc = "old_pip_upgrade"
    /\ \E ok \in BOOLEAN :
         Step("old_install_req",
              IF ok THEN {"pip_upgrade"} ELSE {"pip_upgrade", "pip_upgrade_fail"})
    /\ UNCHANGED <<path, fs, runs, script, pythonCmd, pkgMgr, procs, venvCreates>>

\* lines 56-62
Old_InstallReq ==
    /\ script = "ps1_old" /\ pc = "old_install_req"
    /\ IF "req" \in fs
       THEN \E ok \in BOOLEAN :
              Step("old_frontend_install",
                   IF ok THEN {"req_install"} ELSE {"req_install", "req_install_fail"})
       ELSE Step("old_frontend_install", {"req_skip_warn"})
    /\ UNCHANGED <<path, fs, runs, script, pythonCmd, pkgMgr, procs, venvCreates>>

\* lines 64-78: only npm is looked up; without it the script ends.
Old_FrontendInstall ==
    /\ script = "ps1_old" /\ pc = "old_frontend_install"
    /\ IF "frontend" \notin fs
       THEN /\ Step("old_start_backend", {"fe_dir_missing"})
            /\ pkgMgr' = pkgMgr
       ELSE IF "npm" \notin path
       THEN /\ Abort({"npm_not_found"})
            /\ pkgMgr' = pkgMgr
       ELSE /\ pkgMgr' = "npm"
            /\ \E ok \in BOOLEAN :
                 Step("old_frontend_build",
                      IF ok THEN {"fe_install"} ELSE {"fe_install", "fe_install_fail"})
    /\ UNCHANGED <<path, fs, runs, script, pythonCmd, procs, venvCreates>>

\* lines 80-83
Old_FrontendBuild ==
    /\ script = "ps1_old" /\ pc = "old_frontend_build"
    /\ \E ok \in BOOLEAN :
         Step("old_start_backend",
              IF ok THEN {"fe_build"} ELSE {"fe_build", "fe_build_fail"})
    /\ UNCHANGED <<path, fs, runs, script, pythonCmd, pkgMgr, procs, venvCreates>>

\* lines 85-88
Old_StartBackend ==
    /\ script = "ps1_old" /\ pc = "old_start_backend"
    /\ Spawn("backend")
    /\ Step("old_start_frontend", {"backend_spawn"})
    /\ UNCHANGED <<path, fs, runs, script, pythonCmd, pkgMgr, venvCreates>>

\* lines 90-96: no wait on the backend before this step.
Old_StartFrontend ==
    /\ script = "ps1_old" /\ pc = "old_start_frontend"
    /\ IF "frontend" \in fs
       THEN /\ Spawn("frontend")
            /\ Step("old_open_browser", {"frontend_step", "frontend_spawn"})
       ELSE /\ procs' = procs
            /\ Step("old_open_browser", {"frontend_step", "frontend_skip"})
    /\ UNCHANGED <<path, fs, runs, script, pythonCmd, pkgMgr, venvCreates>>

\* lines 98-104: Start-Process on the URL, not guarded by try/catch.
Old_OpenBrowser ==
    /\ script = "ps1_old" /\ pc = "old_open_browser"
    /\ \E ok \in BOOLEAN :
         IF ok THEN Exit(0, {"browser_open"})
               ELSE Abort({"browser_open", "browser_fail"})
    /\ UNCHANGED <<path, fs, runs, script, pythonCmd, pkgMgr, procs, venvCreates>>

OldNext ==
    \/ Old_EnsurePython \/ Old_CreateVenv \/ Old_VenvPython \/ Old_PipUpgrade
    \/ Old_InstallReq \/ Old_FrontendInstall \/ Old_FrontendBuild
    \/ Old_StartBackend \/ Old_StartFrontend \/ Old_OpenBrowser

---------------------------------------------------------------------------
\* runapp.sh  (src/unnamed/part_002; bash, set -e).  It resolves no
\* interpreter: it calls python3 and npm by name.

\* lines 45-51
Rsh_CreateVenv ==
    /\ script = "runapp_sh" /\ pc = "rsh_create_venv"
    /\ IF "venv" \notin fs
       THEN \E r \in VenvOutcomes("python3") :
              /\ RunVenvCreate("python3", r)
              /\ IF r.ok THEN Step("rsh_activate", {"venv_create"})
                         ELSE Abort({"venv_create", "venv_create_fail"})
       ELSE /\ Step("rsh_activate", {})
            /\ UNCHANGED <<fs, venvCreates>>
    /\ UNCHANGED <<path, runs, script, pythonCmd, pkgMgr, procs>>

\* line 54: sourcing a missing activate script fails, and set -e ends the run.
Rsh_Activate ==
    /\ script = "runapp_sh" /\ pc = "rsh_activate"
    /\ IF "venvpy" \notin fs
       THEN Abort({"activate_fail"})
       ELSE Step("rsh_install_req", {})
    /\ UNCHANGED <<path, fs, runs, script, pythonCmd, pkgMgr, procs, venvCreates>>

\* lines 56-58: pip install -r requirements.txt, with no test for the file.
Rsh_InstallReq ==
    /\ script = "runapp_sh" /\ pc = "rsh_install_req"
    /\ \E ok \in BOOLEAN :
         IF ok /\ "req" \in fs
         THEN Step("rsh_start_backend", {"req_install"})
         ELSE Abort({"req_install", "req_install_fail"})
    /\ UNCHANGED <<path, fs, runs, script, pythonCmd, pkgMgr, procs, venvCreates>>

\* lines 18-20 and 60: start_backend is called with backend/ as the working
\* directory (line 45), and its first command is `cd backend`.  In the plain
\* project tree there is no backend/backend: the cd fails and set -e ends
\* the run before anything is spawned and before any trap is set.  The cd
\* resolves only where the environment makes it (CDPATH naming the project
\* root, or a nested backend directory).
Rsh_StartBackend ==
    /\ script = "runapp_sh" /\ pc = "rsh_start_backend"
    /\ \E cdOk \in BOOLEAN :
         IF cdOk THEN Step("rsh_spawn_backend", {})
                 ELSE Abort({"cd_backend_fail"})
    /\ UNCHANGED <<path, fs, runs, script, pythonCmd, pkgMgr, procs, venvCreates>>

\* lines 22-38: the backend is put in the background, its pid recorded and
\* the EXIT trap set.  The trap of line 35 names the backend only.
Rsh_SpawnBackend_TrapAll ==
    /\ script = "runapp_sh" /\ pc = "rsh_spawn_backend"
    /\ Spawn("backend")
    /\ Step("rsh_cd_frontend", {"backend_spawn", "trap_all"})
    /\ UNCHANGED <<path, fs, runs, script, pythonCmd, pkgMgr, venvCreates>>

Rsh_SpawnBackend ==
    /\ script = "runapp_sh" /\ pc = "rsh_spawn_backend"
    /\ Spawn("backend")
    /\ Step("rsh_cd_frontend", {"backend_spawn", "trap_backend"})
    /\ UNCHANGED <<path, fs, runs, script, pythonCmd, pkgMgr, venvCreates>>

\* lines 63-70: cd .. ; cd frontend.  From here on a failing command ends
\* the script under set -e and the EXIT trap runs.
Rsh_CdFrontend ==
    /\ script = "runapp_sh" /\ pc = "rsh_cd_frontend"
    /\ \E cdOk \in BOOLEAN :
         IF cdOk /\ "frontend" \in fs
         THEN /\ Step("rsh_npm_install", {})
              /\ procs' = procs
         ELSE AbortWithTrap({"cd_frontend_fail"})
    /\ UNCHANGED <<path, fs, runs, script, pythonCmd, pkgMgr, venvCreates>>

\* lines 72-74
Rsh_NpmInstall ==
    /\ script = "runapp_sh" /\ pc = "rsh_npm_install"
    /\ \E ok \in BOOLEAN :
         IF ok /\ "npm" \in path
         THEN /\ Step("rsh_npm_build", {"fe_install"})
              /\ procs' = procs
         ELSE AbortWithTrap({"fe_install", "fe_install_fail"})
    /\ UNCHANGED <<path, fs, runs, script, pythonCmd, pkgMgr, venvCreates>>

\* lines 76-78
Rsh_NpmBuild ==
    /\ script = "runapp_sh" /\ pc = "rsh_npm_build"
    /\ \E ok \in BOOLEAN :
         IF ok /\ "npm" \in path
         THEN /\ Step("rsh_start_frontend", {"fe_build"})
              /\ procs' = procs
         ELSE AbortWithTrap({"fe_build", "fe_build_fail"})
    /\ UNCHANGED <<path, fs, runs, script, pythonCmd, pkgMgr, venvCreates>>

\* lines 80-92: npm start in the background, its pid recorded, and the EXIT
\* trap replaced by one naming both processes.
Rsh_StartFrontend ==
    /\ script = "runapp_sh" /\ pc = "rsh_start_frontend"
    /\ Spawn("frontend")
    /\ Step("rsh_open_browser", {"frontend_step", "frontend_spawn", "trap_all"})
    /\ UNCHANGED <<path, fs, runs, script, pythonCmd, pkgMgr, venvCreates>>

\* lines 94-108: a fixed 5 s wait, then xdg-open or open with no guard: a
\* failing opener ends the script under set -e.
Rsh_OpenBrowser ==
    /\ script = "runapp_sh" /\ pc = "rsh_open_browser"
    /\ \E opener \in {"xdg-open", "open", "none"}, ok \in BOOLEAN :
         IF opener = "none"
         THEN /\ Step("rsh_wait", {"browser_none"})
              /\ procs' = procs
         ELSE IF ok
         THEN /\ Step("rsh_wait", {"browser_open"})
              /\ procs' = procs
         ELSE AbortWithTrap({"browser_open", "browser_fail"})
    /\ UNCHANGED <<path, fs, runs, script, pythonCmd, pkgMgr, venvCreates>>

\* lines 110-119: `wait` returns once the background job npm start has
\* ended by itself; the script then ends and its EXIT trap runs.  Until
\* then only an interrupt ends the script.
Rsh_Wait ==
    /\ script = "runapp_sh" /\ pc = "rsh_wait"
    /\ Exit(0, {"wait_returned"} \cup {KillEvent(p) : p \in TrapTargets})
    /\ procs' = [procs EXCEPT !["frontend"] = "terminated"]
    /\ UNCHANGED <<path, fs, runs, script, pythonCmd, pkgMgr, venvCreates>>

RshNext ==
    \/ Rsh_CreateVenv \/ Rsh_Activate \/ Rsh_InstallReq \/ Rsh_StartBackend
    \/ Rsh_SpawnBackend \/ Rsh_CdFrontend \/ Rsh_NpmInstall \/ Rsh_NpmBuild
    \/ Rsh_StartFrontend \/ Rsh_OpenBrowser \/ Rsh_Wait

---------------------------------------------------------------------------
\* runapp.bat  (cmd batch file).  No statement tests an exit status: after a
\* failing command the next line runs.  It resolves no interpreter: it
\* calls python, pip and npm by name.

\* lines 22-28
Bat_CreateVenv ==
    /\ script = "bat" /\ pc = "bat_create_venv"
    /\ IF "venv" \notin fs
       THEN \E r \in VenvOutcomes("python") :
              /\ RunVenvCreate("python", r)
              /\ Step("bat_activate",
                      IF r.ok THEN {"venv_create"}
                      ELSE {"venv_create", "venv_create_fail"})
       ELSE /\ Step("bat_activate", {})
            /\ UNCHANGED <<fs, venvCreates>>
    /\ UNCHANGED <<path, runs, script, pythonCmd, pkgMgr, procs>>

\* lines 30-31
Bat_Activate ==
    /\ script = "bat" /\ pc = "bat_activate"
    /\ Step("bat_install_req",
            IF "venvpy" \in fs THEN {} ELSE {"activate_fail"})
    /\ UNCHANGED <<path, fs, runs, script, pythonCmd, pkgMgr, procs, venvCreates>>

\* lines 33-35
Bat_InstallReq ==
    /\ script = "bat" /\ pc = "bat_install_req"
    /\ \E ok \in BOOLEAN :
         Step("bat_start_backend",
              IF ok /\ "req" \in fs THEN {"req_install"}
              ELSE {"req_install", "req_install_fail"})
    /\ UNCHANGED <<path, fs, runs, script, pythonCmd, pkgMgr, procs, venvCreates>>

\* lines 37-43: the backend window is started before the frontend is built.
Bat_StartBackend ==
    /\ script = "bat" /\ pc = "bat_start_backend"
    /\ Spawn("backend")
    /\ Step("bat_npm_install", {"backend_spawn"})
    /\ UNCHANGED <<path, fs, runs, script, pythonCmd, pkgMgr, venvCreates>>

\* lines 48-53
Bat_NpmInstall ==
    /\ script = "bat" /\ pc = "bat_npm_install"
    /\ \E ok \in BOOLEAN :
         Step("bat_npm_build",
              IF ok /\ "npm" \in path /\ "frontend" \in fs THEN {"fe_install"}
              ELSE {"fe_install", "fe_install_fail"})
    /\ UNCHANGED <<path, fs, runs, script, pythonCmd, pkgMgr, procs, venvCreates>>

\* lines 55-57
Bat_NpmBuild ==
    /\ script = "bat" /\ pc = "bat_npm_build"
    /\ \E ok \in BOOLEAN :
         Step("bat_start_frontend",
              IF ok /\ "npm" \in path /\ "frontend" \in fs THEN {"fe_build"}
              ELSE {"fe_build", "fe_build_fail"})
    /\ UNCHANGED <<path, fs, runs, script, pythonCmd, pkgMgr, procs, venvCreates>>

\* lines 62-65: the frontend window is started whatever came before.
Bat_StartFrontend ==
    /\ script = "bat" /\ pc = "bat_start_frontend"
    /\ Spawn("frontend")
    /\ Step("bat_open_browser", {"frontend_step", "frontend_spawn"})
    /\ UNCHANGED <<path, fs, runs, script, pythonCmd, pkgMgr, venvCreates>>

\* lines 67-78: a fixed 5 s wait, the browser, then the script ends.
Bat_OpenBrowser ==
    /\ script = "bat" /\ pc = "bat_open_browser"
    /\ \E ok \in BOOLEAN :
         Exit(0, IF ok THEN {"browser_open"} ELSE {"browser_open", "browser_fail"})
    /\ UNCHANGED <<path, fs, runs, script, pythonCmd, pkgMgr, procs, venvCreates>>

BatNext ==
    \/ Bat_CreateVenv \/ Bat_Activate \/ Bat_InstallReq \/ Bat_StartBackend
    \/ Bat_NpmInstall \/ Bat_NpmBuild \/ Bat_StartFrontend \/ Bat_OpenBrowser

---------------------------------------------------------------------------
Next ==
    \/ \E s \in Scripts : StartRun(s)
    \/ Interrupt
    \/ ShNext
    \/ Ps1Next
    \/ OldNext
    \/ RshNext
    \/ BatNext

Spec == Init /\ [][Next]_vars

---------------------------------------------------------------------------
\* The health wait, statement by statement.  Sh_WaitHealth and
\* Ps1_WaitHealth above are its two outcomes; here the loop itself runs
\* against a clock that counts whole seconds since the loop's start time
\* was taken.

\* start-application.sh line 98 and Start_application.ps1 line 158.
TIMEOUT == 60

\* `sleep 1` / Start-Sleep -Seconds 1 between two polls.
SleepSecs == 1

\* Invoke-WebRequest -TimeoutSec 2: a poll of the ps1 takes at most 2 s.
PollTimeoutSec == 2

\* curl is called with no --max-time and no --connect-timeout: the script
\* sets no limit on how long one poll takes.  The model lets a curl poll
\* take up to MaxPollSecs seconds.
MaxPollSecs == 5

HealthScripts == {"sh", "ps1"}

\* The script has started its backend and reaches the wait:
\* START=$(date +%s) / $start = Get-Date.
H_Start(s) ==
    /\ hpc = "idle"
    /\ hScript' = s
    /\ hpc' = IF s = "sh" THEN "sh_poll" ELSE "ps1_test"
    /\ clock' = 0
    /\ hResult' = "none"
    /\ UNCHANGED <<scriptVars, pageVars>>

\* sh lines 100-104: one curl; on success the loop is left.
ShH_Poll ==
    /\ hScript = "sh" /\ hpc = "sh_poll"
    /\ \E d \in 0..MaxPollSecs, ok \in BOOLEAN :
         /\ clock' = clock + d
         /\ IF ok THEN hResult' = "healthy" /\ hpc' = "done"
                  ELSE hResult' = hResult /\ hpc' = "sh_check"
    /\ UNCHANGED <<hScript, scriptVars, pageVars>>

\* sh lines 105-109: NOW=$(date +%s); [ $((NOW-START)) -ge $TIMEOUT ]
ShH_Check ==
    /\ hScript = "sh" /\ hpc = "sh_check"
    /\ IF clock >= TIMEOUT
       THEN hResult' = "timeout" /\ hpc' = "done"
       ELSE hResult' = hResult /\ hpc' = "sh_sleep"
    /\ UNCHANGED <<hScript, clock, scriptVars, pageVars>>

\* sh line 110
ShH_Sleep ==
    /\ hScript = "sh" /\ hpc = "sh_sleep"
    /\ clock' = clock + SleepSecs
    /\ hpc' = "sh_poll"
    /\ UNCHANGED <<hScript, hResult, scriptVars, pageVars>>

\* ps1 line 158: the while condition.  When it is false the loop is left
\* with nothing said.
Ps1H_Test ==
    /\ hScript = "ps1" /\ hpc = "ps1_test"
    /\ IF clock < TIMEOUT
       THEN hResult' = hResult /\ hpc' = "ps1_poll"
       ELSE hResult' = "timeout" /\ hpc' = "done"
    /\ UNCHANGED <<hScript, clock, scriptVars, pageVars>>

\* ps1 lines 159-162: one request of at most 2 s.  Status 200 leaves the
\* loop; another success status goes round again at once; an error (a
\* refused connection, the 2 s timeout, a non-success status) goes to the
\* catch block.
Ps1H_Poll ==
    /\ hScript = "ps1" /\ hpc = "ps1_poll"
    /\ \E d \in 0..PollTimeoutSec, r \in {"200", "2xx", "error"} :
         /\ clock' = clock + d
         /\ IF r = "200" THEN hResult' = "healthy" /\ hpc' = "done"
            ELSE IF r = "2xx" THEN hResult' = hResult /\ hpc' = "ps1_test"
            ELSE hResult' = hResult /\ hpc' = "ps1_sleep"
    /\ UNCHANGED <<hScript, scriptVars, pageVars>>

\* ps1 line 162, the catch block
Ps1H_Sleep ==
    /\ hScript = "ps1" /\ hpc = "ps1_sleep"
    /\ clock' = clock + SleepSecs
    /\ hpc' = "ps1_test"
    /\ UNCHANGED <<hScript, hResult, scriptVars, pageVars>>

HealthNext ==
    \/ \E s \in HealthScripts : H_Start(s)
    \/ ShH_Poll \/ ShH_Check \/ ShH_Sleep
    \/ Ps1H_Test \/ Ps1H_Poll \/ Ps1H_Sleep

\* One machine: everything on PATH, the project tree complete.
HealthInit ==
    /\ Init
    /\ path = Commands
    /\ fs = FsEntries

SpecHealth == HealthInit /\ [][HealthNext]_vars

---------------------------------------------------------------------------
\* The converter pages of the frontend: word-to-md (page.tsx) and md-to-word
\* (src/unnamed/part_005).  Every handler is one action up to its first
\* await; what it does once the response is there is the response action.

\* page.tsx line 29: MAX_BYTES = 3 * 1024 * 1024
MAX_BYTES == 3 * 1024 * 1024

\* Requests sent in one behaviour.
MaxRequests == 2

\* A file name is the sequence of the pieces between its dots, which is
\* what name.split(".") returns: "report.docx" is <<"report", "docx">>,
\* "docx" is <<"docx">>, "report." is <<"report", "">>.
Names ==
    { <<"report", "docx">>, <<"report", "DOCX">>, <<"report", "pdf">>,
      <<"notes", "md">>, <<"notes", "MD">>, <<"docx">>, <<"report", "">> }

Sizes == {MAX_BYTES, MAX_BYTES + 1}

Files == [name : Names, size : Sizes]

\* String.prototype.toLowerCase on the pieces in use.
ToLowerCase(s) ==
    CASE s = "DOCX" -> "docx"
      [] s = "MD"   -> "md"
      [] OTHER      -> s

\* page.tsx line 39: "." + (f.name.split(".").pop() || "").toLowerCase().
\* The result is the pair of the dot and what follows it.
ExtOf(name) == <<".", ToLowerCase(name[Len(name)])>>

\* page.tsx line 28
accepted == { <<".", "docx">>, <<".", "pdf">> }

\* The extension of a file name: what follows its last dot, if it has a dot.
HasExtension(name) == Len(name) >= 2

\* page.tsx lines 41 and 47: the messages.
UnsupportedMsg(ext) ==
    <<"Unsupported file type: ", ext[1], ext[2], ". Supported: .docx, .pdf">>

TooLargeMsg == <<"File too large. Maximum allowed size is 3 MB.">>

W2M_URL == "http://localhost:8000/api/convert/word-to-md"

M2W_URL == "http://localhost:8000/api/convert/md-to-word"

\* A request in flight: the FormData parts are pairs of a part name and a
\* file, in the order they were appended.
Request(u, parts) == [id |-> sent + 1, url |-> u, parts |-> parts]

\* The request sent, and sent once more.
Send_Twice(r) ==
    /\ sent + 1 < MaxRequests
    /\ inflight' = inflight \cup {r, [r EXCEPT !.id = sent + 2]}
    /\ sent' = sent + 2

Send(r) ==
    /\ sent < MaxRequests
    /\ inflight' = inflight \cup {r}
    /\ sent' = sent + 1

\* The lists a drop or a pick hands to handleFiles: no file, one file, or
\* a drop of two files.
SecondFiles == { [name |-> <<"notes", "md">>, size |-> MAX_BYTES + 1] }

FileLists ==
    {<<>>} \cup {<<f>> : f \in Files}
           \cup {<<f, g>> : f \in Files, g \in SecondFiles}

\* page.tsx line 46 with >= in the place of >.
TooLarge_Ge(f) == f.size >= MAX_BYTES

\* page.tsx line 46
TooLarge(f) == f.size > MAX_BYTES

\* page.tsx lines 31-61: handleFiles up to the fetch.
handleFiles(files) ==
    /\ page = "word-to-md"
    /\ lastCall' = [op |-> "handleFiles", files |-> files, resp |-> <<>>]
    /\ markdown' = <<>>
    /\ IF Len(files) = 0
       THEN /\ error' = <<>>
            /\ UNCHANGED <<fileName, loading, inflight, sent>>
       ELSE LET f == files[1]
                ext == ExtOf(f.name)
            IN  IF ext \notin accepted
                THEN /\ error' = <<UnsupportedMsg(ext)>>
                     /\ UNCHANGED <<fileName, loading, inflight, sent>>
                ELSE IF TooLarge(f)
                THEN /\ error' = <<TooLargeMsg>>
                     /\ UNCHANGED <<fileName, loading, inflight, sent>>
                ELSE /\ error' = <<>>
                     /\ fileName' = <<f.name>>
                     /\ loading' = TRUE
                     /\ Send(Request(W2M_URL, << <<"file", f>> >>))
    /\ UNCHANGED <<page, mdFiles, themeFile, isConverting, result>>
    /\ UNCHANGED <<scriptVars, healthVars>>

\* page.tsx lines 93-97: a drop hands over every dropped file.
W2M_onDrop == \E files \in FileLists : handleFiles(files)

\* page.tsx lines 111-114 and 148-154: the input has no `multiple`, the
\* picker hands over at most one file.
W2M_onPickFile ==
    \E files \in {l \in FileLists : Len(l) <= 1} : handleFiles(files)

\* page.tsx lines 77-82: <information ...> and </information> become div
\* tags; other text is left as it is.
sanitizeHtmlTags(md) ==
    IF md = "<information>note</information>"
    THEN "<div class=\"information\">note</div>"
    ELSE md

\* The message with the body always left out.
HttpErrorMsg_StatusOnly(o, prefix) == <<prefix, o.status>>

\* page.tsx lines 64-65 and part_005 lines 101-102:
\* text || `Server returned ${resp.status}` -- an empty body is falsy.
HttpErrorMsg(o, prefix) ==
    IF o.body # "" THEN <<o.body>> ELSE <<prefix, o.status>>

\* What the server, or the network, answers to a word-to-md request:
\* the fetch rejects; a status outside 2xx with or without a body; a 2xx
\* answer whose JSON has a string markdown or has none.
W2M_Outcomes ==
    { [kind |-> "reject", status |-> "0",   body |-> "Failed to fetch"],
      [kind |-> "http",   status |-> "500", body |-> ""],
      [kind |-> "http",   status |-> "422", body |-> "bad document"],
      [kind |-> "json",   status |-> "200", body |-> "# Title"],
      [kind |-> "json",   status |-> "200",
       body |-> "<information>note</information>"],
      [kind |-> "nomarkdown", status |-> "200", body |-> ""] }

\* The flag cleared after a successful conversion only.
Finally_OkOnly(o, flag) == IF o.kind = "json" THEN FALSE ELSE flag

\* page.tsx lines 86-88, part_005 lines 110-112: the finally block clears the
\* in-progress flag whatever the outcome (o) and the flag's value were.
Finally(o, flag) == FALSE

\* page.tsx lines 63-89: the rest of handleFiles once the fetch settled.
W2M_Response ==
    /\ page = "word-to-md"
    /\ \E r \in inflight, o \in W2M_Outcomes :
         /\ r.url = W2M_URL
         /\ inflight' = inflight \ {r}
         /\ CASE o.kind = "reject" ->
                   error' = << <<o.body>> >> /\ markdown' = markdown
              [] o.kind = "http" ->
                   /\ error' = <<HttpErrorMsg(o, "Server returned ")>>
                   /\ markdown' = markdown
              [] o.kind = "nomarkdown" ->
                   /\ error' =
                        << <<"Invalid server response (expected { markdown })">> >>
                   /\ markdown' = markdown
              [] o.kind = "json" ->
                   /\ markdown' = <<[src  |-> r.parts[1][2].name,
                                     text |-> sanitizeHtmlTags(o.body)]>>
                   /\ error' = error
         /\ lastCall' = [op |-> "response", files |-> <<>>, resp |-> <<o>>]
         /\ loading' = Finally(o, loading)
    /\ UNCHANGED <<page, fileName, mdFiles, themeFile, isConverting, result, sent>>
    /\ UNCHANGED <<scriptVars, healthVars>>

\* page.tsx lines 163-172: the Reset button.
W2M_Reset ==
    /\ page = "word-to-md"
    /\ fileName' = <<>>
    /\ markdown' = <<>>
    /\ error' = <<>>
    /\ lastCall' = [op |-> "reset", files |-> <<>>, resp |-> <<>>]
    /\ UNCHANGED <<page, loading, mdFiles, themeFile, isConverting, result,
                   inflight, sent>>
    /\ UNCHANGED <<scriptVars, healthVars>>

---------------------------------------------------------------------------
\* md-to-word page (src/unnamed/part_005).

\* Files selected at once on this page, and in the list.
MaxMdFiles == 2

\* Files a user picks or drops on this page.  `accept` on the inputs is a
\* hint to the file dialog, it does not filter what the handler receives.
MdPickable ==
    { [name |-> <<"notes", "MD">>,    size |-> MAX_BYTES + 1],
      [name |-> <<"report", "docx">>, size |-> MAX_BYTES] }

MdLists ==
    {<<>>} \cup {<<f>> : f \in MdPickable}
           \cup {<<f, g>> : f \in MdPickable, g \in MdPickable}

OtherPageVars == <<page, fileName, markdown, loading>>

\* part_005 lines 27-35
handleMdSelect ==
    /\ page = "md-to-word"
    /\ \E newFiles \in MdLists :
         /\ Len(mdFiles) + Len(newFiles) <= MaxMdFiles
         /\ mdFiles' = IF Len(newFiles) > 0 THEN mdFiles \o newFiles ELSE mdFiles
    /\ lastCall' = [op |-> "handleMdSelect", files |-> <<>>, resp |-> <<>>]
    /\ UNCHANGED <<OtherPageVars, error, themeFile, isConverting, result,
                   inflight, sent>>
    /\ UNCHANGED <<scriptVars, healthVars>>

\* The list without its element at position i (positions from 1).
RemoveAt(s, i) == SubSeq(s, 1, i - 1) \o SubSeq(s, i + 1, Len(s))

\* part_005 lines 37-39 and 226-236: the cross next to a listed file.
removeMdFile ==
    /\ page = "md-to-word"
    /\ \E i \in 1..Len(mdFiles) : mdFiles' = RemoveAt(mdFiles, i)
    /\ lastCall' = [op |-> "removeMdFile", files |-> <<>>, resp |-> <<>>]
    /\ UNCHANGED <<OtherPageVars, error, themeFile, isConverting, result,
                   inflight, sent>>
    /\ UNCHANGED <<scriptVars, healthVars>>

\* part_005 lines 217-223: Clear All, shown while the list is not empty.
M2W_ClearAll ==
    /\ page = "md-to-word"
    /\ Len(mdFiles) > 0
    /\ mdFiles' = <<>>
    /\ lastCall' = [op |-> "clearAll", files |-> <<>>, resp |-> <<>>]
    /\ UNCHANGED <<OtherPageVars, error, themeFile, isConverting, result,
                   inflight, sent>>
    /\ UNCHANGED <<scriptVars, healthVars>>

\* part_005 lines 42-47
handleThemeSelect ==
    /\ page = "md-to-word"
    /\ \E files \in {l \in MdLists : Len(l) <= 1} :
         themeFile' = IF Len(files) > 0 THEN <<files[1]>> ELSE themeFile
    /\ lastCall' = [op |-> "handleThemeSelect", files |-> <<>>, resp |-> <<>>]
    /\ UNCHANGED <<OtherPageVars, error, mdFiles, isConverting, result,
                   inflight, sent>>
    /\ UNCHANGED <<scriptVars, healthVars>>

\* part_005 lines 254-262: the cross on the theme chip, shown with a theme.
M2W_ClearTheme ==
    /\ page = "md-to-word"
    /\ themeFile # <<>>
    /\ themeFile' = <<>>
    /\ lastCall' = [op |-> "clearTheme", files |-> <<>>, resp |-> <<>>]
    /\ UNCHANGED <<OtherPageVars, error, mdFiles, isConverting, result,
                   inflight, sent>>
    /\ UNCHANGED <<scriptVars, healthVars>>

\* part_005 line 71: f.name.toLowerCase().endsWith(".md")
EndsWithMd(name) == Len(name) >= 2 /\ ToLowerCase(name[Len(name)]) = "md"

SelectMd(s) == SelectSeq(s, LAMBDA f : EndsWithMd(f.name))

\* part_005 lines 66-76
M2W_onDrop ==
    /\ page = "md-to-word"
    /\ \E files \in MdLists :
         LET dropped == SelectMd(files) IN
         /\ Len(mdFiles) + Len(dropped) <= MaxMdFiles
         /\ mdFiles' = IF Len(dropped) > 0 THEN mdFiles \o dropped ELSE mdFiles
    /\ lastCall' = [op |-> "onDrop", files |-> <<>>, resp |-> <<>>]
    /\ UNCHANGED <<OtherPageVars, error, themeFile, isConverting, result,
                   inflight, sent>>
    /\ UNCHANGED <<scriptVars, healthVars>>

NoFilesMsg == <<"Please upload at least one Markdown file.">>

\* The FormData without lines 91-93.
FormParts_NoTheme(fs0, theme) == [i \in 1..Len(fs0) |-> <<"files", fs0[i]>>]

\* part_005 lines 89-93: the FormData of a conversion.
FormParts(fs0, theme) ==
    [i \in 1..Len(fs0) |-> <<"files", fs0[i]>>]
        \o (IF theme # <<>> THEN << <<"theme", theme[1]>> >> ELSE <<>>)

\* part_005 lines 79-98: handleConvert up to the fetch.
handleConvert ==
    /\ page = "md-to-word"
    /\ lastCall' = [op |-> "handleConvert", files |-> <<>>, resp |-> <<>>]
    /\ IF Len(mdFiles) = 0
       THEN /\ error' = <<NoFilesMsg>>
            /\ UNCHANGED <<isConverting, result, inflight, sent>>
       ELSE /\ error' = <<>>
            /\ isConverting' = TRUE
            /\ result' = <<>>
            /\ Send(Request(M2W_URL, FormParts(mdFiles, themeFile)))
    /\ UNCHANGED <<OtherPageVars, mdFiles, themeFile>>
    /\ UNCHANGED <<scriptVars, healthVars>>

\* The button disabled while the list is empty only.
M2W_ClickConvert_NoFlag ==
    /\ ~(Len(mdFiles) = 0)
    /\ handleConvert

\* part_005 lines 295-297: the Convert button, disabled while a conversion
\* runs and while the list is empty.
M2W_ClickConvert ==
    /\ ~(isConverting \/ Len(mdFiles) = 0)
    /\ handleConvert

\* What comes back for a md-to-word request.  A 2xx body is either the
\* conversion of the submitted files or some other JSON (an object without
\* a files list).
M2W_Outcomes ==
    { [kind |-> "reject", status |-> "0",   body |-> "Failed to fetch"],
      [kind |-> "http",   status |-> "500", body |-> ""],
      [kind |-> "http",   status |-> "400", body |-> "bad markdown"],
      [kind |-> "json",   status |-> "200", body |-> "converted"],
      [kind |-> "json",   status |-> "200", body |-> "other"] }

\* The positions of the parts of request r that are named n.
PartsNamed(r, n) == {i \in 1..Len(r.parts) : r.parts[i][1] = n}

\* The backend's answer to request r (the backend is not part of the
\* sources at hand; this is its contract): one {filename, b64} entry per
\* submitted file, in order, and an archive when there is more than one.
ConvertMarkdownToWord(r) ==
    LET n == Cardinality(PartsNamed(r, "files")) IN
    [ hasFiles |-> TRUE,
      files    |-> [i \in 1..n |-> [filename |-> r.parts[i][2].name,
                                     b64 |-> "docx bytes"]],
      zip      |-> IF n > 1 THEN <<"zip bytes">> ELSE <<>> ]

\* A JSON object of another shape: no files list, no zip.
OtherJson == [hasFiles |-> FALSE, files |-> <<>>, zip |-> <<>>]

\* The data stored with its archive dropped.
StoredData_NoZip(data) == [data EXCEPT !.zip = <<>>]

\* part_005 lines 105-106: const data = await res.json(); setResult(data)
StoredData(data) == data

\* part_005 lines 100-112: the rest of handleConvert once the fetch settled.
M2W_Response ==
    /\ page = "md-to-word"
    /\ \E r \in inflight, o \in M2W_Outcomes :
         /\ r.url = M2W_URL
         /\ inflight' = inflight \ {r}
         /\ CASE o.kind = "reject" ->
                   error' = << <<o.body>> >> /\ result' = result
              [] o.kind = "http" ->
                   /\ error' = <<HttpErrorMsg(o, "Server error: ")>>
                   /\ result' = result
              [] o.kind = "json" ->
                   /\ result' = <<StoredData(IF o.body = "converted"
                                             THEN ConvertMarkdownToWord(r)
                                             ELSE OtherJson)>>
                   /\ error' = error
         /\ lastCall' = [op |-> "response", files |-> <<>>, resp |-> <<o>>]
         /\ isConverting' = Finally(o, isConverting)
    /\ UNCHANGED <<OtherPageVars, mdFiles, themeFile, sent>>
    /\ UNCHANGED <<scriptVars, healthVars>>

\* A page is opened (the cards of the landing page, the Back to Home link,
\* the address bar).  The page left is unmounted: its state is gone, and a
\* response to one of its requests finds nothing to update.
Pages == {"home", "word-to-md", "md-to-word"}

Navigate(p) ==
    /\ p # page
    /\ page' = p
    /\ fileName' = <<>> /\ markdown' = <<>> /\ loading' = FALSE
    /\ error' = <<>>
    /\ mdFiles' = <<>> /\ themeFile' = <<>> /\ isConverting' = FALSE
    /\ result' = <<>>
    /\ inflight' = {}
    /\ lastCall' = [op |-> "navigate", files |-> <<>>, resp |-> <<>>]
    /\ UNCHANGED sent
    /\ UNCHANGED <<scriptVars, healthVars>>

PagesNext ==
    \/ \E p \in Pages : Navigate(p)
    \/ W2M_onDrop \/ W2M_onPickFile \/ W2M_Response \/ W2M_Reset
    \/ handleMdSelect \/ removeMdFile \/ M2W_ClearAll
    \/ handleThemeSelect \/ M2W_ClearTheme \/ M2W_onDrop
    \/ M2W_ClickConvert \/ M2W_Response

PagesInit ==
    /\ Init
    /\ path = Commands
    /\ fs = FsEntries

\* The pages as a user drives them.
SpecPages == PagesInit /\ [][PagesNext]_vars

\* The same with handleConvert also called on an empty list, which the
\* disabled button keeps a user from doing.
HandlersNext ==
    \/ PagesNext
    \/ (Len(mdFiles) = 0 /\ handleConvert)

SpecHandlers == PagesInit /\ [][HandlersNext]_vars

\* The same with every fetch settling: the promise awaited at page.tsx line 58
\* and part_005 line 97 resolves or rejects, and the continuation of the
\* handler then runs.
SpecHandlersFair ==
    /\ PagesInit
    /\ [][HandlersNext]_vars
    /\ WF_vars(W2M_Response)
    /\ WF_vars(M2W_Response)

---------------------------------------------------------------------------
\* Properties.

HealthWaitEnded == log \cap {"health_ok", "health_timeout"} # {}

BrowserStepDone == log \cap {"browser_open", "browser_none"} # {}

\* C1: in every run of every script the frontend process is spawned only
\* after the backend process was spawned and the wait on /health has ended
\* (success or timeout), and the browser is opened only after the frontend
\* start step.
C1_FrontendAfterHealthWait ==
    /\ "frontend_spawn" \in log =>
           "backend_spawn" \in log /\ HealthWaitEnded
    /\ BrowserStepDone => "frontend_step" \in log

\* C2: when a run has ended, on whatever path, after it spawned both
\* processes, both processes are terminated.
C2_BothTerminatedAtExit ==
    (pc = "exited" /\ "backend_spawn" \in log /\ "frontend_spawn" \in log)
        => \A p \in Procs : procs[p] = "terminated"

\* C3: a run in which an interpreter resolved and that ran to its normal end
\* has installed (or skipped, for want of a manifest) the dependencies and
\* has spawned the backend, whether the environment directory existed at
\* its start or was created by it.
C3_RunReachesBackend ==
    (pc = "exited" /\ exitCode = 0 /\ "resolved" \in log)
        => /\ log \cap {"req_install", "req_skip_warn"} # {}
           /\ "backend_spawn" \in log

\* C4 (as stated): over two successive runs the creation command is executed
\* at most once.
C4_ExecutedAtMostOnce == runs <= 2 => venvCreates <= 1

CreationExecuted ==
    \/ venvCreates' # venvCreates
    \/ "venv_create" \in log' /\ "venv_create" \notin log

\* C4 (amended): the creation command is executed only when the environment
\* directory is absent, so once the directory exists no run executes it
\* again; and no step of any script removes the directory or anything else
\* of the tree.
C4_CreateOnlyWhenAbsent ==
    [][ /\ CreationExecuted => "venv" \notin fs
        /\ fs \subseteq fs' ]_vars

\* C4 witness: a second run found the directory that the first run created
\* and skipped the creation.
C4_Witness_ReusedOnSecondRun ==
    runs = 2 /\ venvCreates = 1 /\ "venv_exists" \in log /\ "venv" \in fs

\* The priority list of interpreter candidates C5 names for a script.
C5Priority(s) ==
    IF s = "sh" THEN <<"python3", "python">>
    ELSE <<"python", "python3", "py">>

\* The first candidate of list q that is on PATH, "" when none is.
FirstAvailable(q) ==
    IF \E i \in 1..Len(q) : q[i] \in path
    THEN q[CHOOSE i \in 1..Len(q) :
               q[i] \in path /\ \A j \in 1..(i-1) : q[j] \notin path]
    ELSE ""

\* C5: in Start_application.ps1 and start-application.sh the interpreter
\* resolved is the first candidate of the priority list that is on PATH, and
\* resolution fails only when no candidate is on PATH.
C5_FirstAvailableResolved ==
    script \in {"sh", "ps1"} =>
        /\ "resolved" \in log =>
               ExeOf(pythonCmd) = FirstAvailable(C5Priority(script))
        /\ "python_not_found" \in log =>
               FirstAvailable(C5Priority(script)) = ""

\* C6: with no interpreter candidate on PATH a run creates no environment,
\* runs no install step, spawns neither process and ends with a non-zero
\* status.
C6_NoInterpreterNoSteps ==
    (script # "none" /\ path \cap PythonCmds = {}) =>
        /\ "venv_create" \in log => "venv_create_fail" \in log
        /\ log \cap {"pip_upgrade", "req_install", "fe_install", "fe_build",
                     "backend_spawn", "frontend_spawn"} = {}
        /\ pc = "exited" => exitCode # 0

\* C7: with backend/requirements.txt absent the dependency install is not
\* attempted, a warning is printed instead, and the run does not fail at
\* that step.
C7_AbsentManifestSkipped ==
    (script # "none" /\ "req" \notin fs) =>
        log \cap {"req_install", "req_install_fail"} = {}

\* C8: with the manifest present, a dependency install that exits non-zero
\* ends the run with a failure, and neither process is spawned.
C8_FailedInstallAborts ==
    ("req" \in fs /\ "req_install_fail" \in log) =>
        /\ pc = "exited" /\ exitCode # 0
        /\ \A p \in Procs : procs[p] = "none"

\* C9: with no package manager on PATH the frontend install, build and start
\* steps are skipped, the run does not abort for want of a manager, and a
\* run that noticed the missing manager has spawned the backend by its end.
C9_NoPkgMgrSoftFailure ==
    (script # "none" /\ path \cap PkgMgrCmds = {}) =>
        /\ log \cap {"fe_install", "fe_build", "frontend_spawn"} = {}
        /\ "npm_not_found" \notin log
        /\ (pc = "exited" /\ "interrupted" \notin log
              /\ log \cap {"pkg_none_warn", "npm_not_found"} # {})
               => "backend_spawn" \in log

\* C10: once the frontend install or build command has exited non-zero the
\* run is over with a failure: the frontend is not spawned and the browser
\* is not opened.
C10_FrontendFailureAborts ==
    (log \cap {"fe_install_fail", "fe_build_fail"} # {}) =>
        /\ pc = "exited" /\ exitCode # 0
        /\ "frontend_spawn" \notin log
        /\ "browser_open" \notin log


\* C11: when the health wait ends by the timeout, a warning is printed, the
\* run goes on to the frontend start step, and the run is not aborted for it.
C11_TimeoutWarnsAndProceeds ==
    "health_timeout" \in log =>
        /\ "health_warn" \in log
        /\ pc = "exited" => ("frontend_step" \in log \/ "interrupted" \in log)


\* C13: a failure of the browser opener is caught and reported, it never
\* aborts the run, and no spawned process is terminated because of it.
C13_BrowserFailureNotFatal ==
    "browser_fail" \in log =>
        /\ "abort" \notin log
        /\ \A p \in Procs : procs[p] # "terminated"


FrontendStageDone ==
    log \cap {"fe_build", "pkg_none_warn", "fe_dir_missing", "fe_skip_warn"} # {}

\* C15: the backend process is spawned only after the dependency
\* installation has run (or was skipped) and the frontend install/build has
\* finished or was skipped.
C15_BackendSpawnedLast ==
    "backend_spawn" \in log =>
        /\ log \cap {"req_install", "req_skip_warn"} # {}
        /\ FrontendStageDone


\* C17: Start_application.ps1 and start-application.sh are equivalent for
\* every environment.  A consequence: in the same environment both fail to
\* find an interpreter or both resolve the same one.
C17_ScriptsEquivalent ==
    script \in {"sh", "ps1"} =>
        /\ "python_not_found" \in log =>
               (ShFindPython(path) = "" /\ "python" \notin path)
        /\ "resolved" \in log => pythonCmd = ShFindPython(path)


\* C16: every spawned process writes to its own log file at the project
\* root (backend.log, frontend.log), and the log files only grow: what an
\* earlier run wrote is still there after a later run.
C16_OwnAppendOnlySinks ==
    [][ /\ \A f \in LogFiles : sinks[f] \subseteq sinks'[f]
        /\ \A p \in Procs :
             (script' \in {"sh", "ps1"} /\ procs'[p] = "running")
                 => runs' \in sinks'[LogOf(p)] ]_vars


SpawnEvent(p) == IF p = "backend" THEN "backend_spawn" ELSE "frontend_spawn"

PollInterval == PollTimeoutSec + SleepSecs

\* C12: the health wait ends; a successful poll ends it at that poll, and
\* without a successful poll it ends as a failure once the timeout is
\* reached, no later than one poll interval after it.
C12_AwaitHealthBounded ==
    /\ hResult = "healthy" => hpc = "done"
    /\ hResult = "timeout" => (hpc = "done" /\ clock >= TIMEOUT)
    /\ hpc # "idle" => clock <= TIMEOUT + PollInterval


\* The step is a call of handleFiles with at least one file.
HandleFilesCalled == lastCall'.op = "handleFiles" /\ Len(lastCall'.files) > 0

\* The file handleFiles takes from the list it is given.
TakenFile == lastCall'.files[1]

\* The name has an extension and, lower-cased, it is .docx or .pdf.
ExtensionAccepted(name) == HasExtension(name) /\ ExtOf(name) \in accepted

IsUnsupportedError(e) == e # <<>> /\ e[1][1] = "Unsupported file type: "

\* C18: word-to-md: whenever handleFiles is given a file whose name's
\* extension, lower-cased, is not .docx or .pdf (names without a dot
\* included), it sets the unsupported-file-type error and sends no request.
C18_UnsupportedRejected ==
    [][ (HandleFilesCalled /\ ~ExtensionAccepted(TakenFile.name))
            => (sent' = sent /\ IsUnsupportedError(error')) ]_vars


\* The request a call of handleFiles on f sends: the next one, with f as
\* its only part.
SentOnce(f) ==
    /\ sent' = sent + 1
    /\ inflight' = inflight \cup
           { [id |-> sent + 1, url |-> W2M_URL, parts |-> << <<"file", f>> >>] }

C20_RequestParts ==
    [][ /\ (lastCall'.op = "handleConvert" /\ Len(mdFiles) = 0)
              => /\ sent' = sent /\ inflight' = inflight
                 /\ error' = <<NoFilesMsg>>
        /\ \A r \in inflight' \ inflight :
              /\ r.url = M2W_URL =>
                    /\ Len(mdFiles) >= 1
                    /\ Cardinality(PartsNamed(r, "files")) = Len(mdFiles)
                    /\ (PartsNamed(r, "theme") # {}) <=> (themeFile # <<>>)
                    /\ Cardinality(PartsNamed(r, "theme")) <= 1
              /\ r.url = W2M_URL =>
                    /\ PartsNamed(r, "theme") = {}
                    /\ Cardinality(PartsNamed(r, "file")) = 1
      ]_vars

\* A conversion with a theme is in flight, the list was cleared, and
\* handleConvert called on the empty list has set the error.
C20_Witness_EmptyListAfterThemedRequest ==
    /\ lastCall.op = "handleConvert"
    /\ mdFiles = <<>> /\ themeFile # <<>>
    /\ error = <<NoFilesMsg>>
    /\ \E r \in inflight : r.url = M2W_URL /\ PartsNamed(r, "theme") # {}


\* The step handles the response to a conversion request.
ResponseHandled == lastCall'.op = "response"

\* What came back in that step.
Came == lastCall'.resp[1]

\* C21 as stated: after a non-OK answer the error is the response body text
\* itself, whatever the body, and the conversion result is null, on both
\* pages.
C21_ErrorIsBodyVerbatim ==
    [][ (ResponseHandled /\ Came.kind = "http")
            => /\ error' = << <<Came.body>> >>
               /\ markdown' = <<>> /\ result' = <<>> ]_vars

\* C21, amended: after a non-OK answer the error is the body text itself
\* when the body is not empty, and "Server returned <status>" (word-to-md)
\* or "Server error: <status>" (md-to-word) when it is empty; handling the
\* answer leaves markdown and result as they were, and on md-to-word the
\* result is null.
C21_ErrorIsBodyOrStatus ==
    [][ (ResponseHandled /\ Came.kind = "http")
            => /\ error' =
                    IF Came.body # "" THEN << <<Came.body>> >>
                    ELSE IF page = "word-to-md"
                    THEN << <<"Server returned ", Came.status>> >>
                    ELSE << <<"Server error: ", Came.status>> >>
               /\ markdown' = markdown /\ result' = result
               /\ page = "md-to-word" => result' = <<>> ]_vars

\* A 422 with the body "bad document" was handled on the word-to-md page.
C21_Witness_BodyShown ==
    /\ page = "word-to-md"
    /\ lastCall.op = "response" /\ lastCall.resp[1].kind = "http"
    /\ lastCall.resp[1].body = "bad document"
    /\ error = << <<"bad document">> >>
    /\ markdown = <<>>


\* The result held has a files list.
HoldsFiles(res) == res # <<>> /\ res[1].hasFiles

ConversionOps == {"handleFiles", "handleConvert"}

\* What the user does on a page, as opposed to a response arriving.
UserOps == ConversionOps \cup
    {"reset", "navigate", "handleMdSelect", "removeMdFile", "clearAll",
     "handleThemeSelect", "clearTheme", "onDrop"}

FailureKinds == {"reject", "http", "nomarkdown"}

\* C23: no retry: one user action sends at most one request, handling a
\* response, failed or not, sends none; a failure is put in error, and
\* only something the user does takes an error away.
C23_NoRetry ==
    [][ /\ sent' \in {sent, sent + 1}
        /\ Cardinality(inflight' \ inflight) <= 1
        /\ sent' # sent => lastCall'.op \in ConversionOps
        /\ ResponseHandled =>
              /\ inflight' \subseteq inflight
              /\ Came.kind \in FailureKinds => error' # <<>>
        /\ (error # <<>> /\ error' = <<>>) => lastCall'.op \in UserOps
      ]_vars

\* A failed conversion was handled: its error is shown, one request was
\* sent in all, none is in flight.
C23_Witness_FailedOnceNoneInFlight ==
    /\ lastCall.op = "response" /\ lastCall.resp[1].kind \in FailureKinds
    /\ error # <<>>
    /\ sent = 1 /\ inflight = {}


\* The md-to-word requests in flight in state (inf).
M2WInFlight(inf) == {r \in inf : r.url = M2W_URL}

C25_BadShapeIsError ==
    [][ /\ (ResponseHandled /\ page = "word-to-md" /\ Came.kind = "nomarkdown")
              => (error' # <<>> /\ markdown' = <<>>)
        /\ (ResponseHandled /\ page = "md-to-word" /\ Came.kind = "json"
              /\ Came.body = "other")
              => (error' # <<>> /\ ~HoldsFiles(result'))
      ]_vars


\* C26: word-to-md: after any sequence of selections, one made while an
\* earlier conversion is in flight included, the markdown held is the
\* conversion of the file named in fileName, and error and markdown are
\* never both non-null.
C26_MarkdownOfNamedFile ==
    page = "word-to-md" =>
        /\ markdown # <<>> => (fileName # <<>> /\ markdown[1].src = fileName[1])
        /\ ~(error # <<>> /\ markdown # <<>>)


\* C27: word-to-md: after Reset fileName, markdown and error are null, and
\* they stay null until the user selects another file, also when a request
\* was in flight at the moment of Reset.
C27_ResetStaysNull ==
    [][ /\ lastCall'.op = "reset"
            => (fileName' = <<>> /\ markdown' = <<>> /\ error' = <<>>)
        /\ (lastCall.op = "reset" /\ lastCall'.op = "response")
            => (fileName' = <<>> /\ markdown' = <<>> /\ error' = <<>>)
      ]_vars


\* C28: every conversion call that sets the in-progress flag (loading,
\* isConverting) eventually sets it back to false, on success, server error,
\* invalid response and network failure; a call rejected by local validation
\* never sets the flag.
C28_FlagEventuallyCleared ==
    /\ loading ~> ~loading
    /\ isConverting ~> ~isConverting
    /\ [][ /\ (lastCall'.op = "handleFiles" /\ sent' = sent)
                => loading' = loading
           /\ (lastCall'.op = "handleConvert" /\ sent' = sent)
                => isConverting' = isConverting
           /\ (lastCall'.op = "handleFiles" /\ sent' # sent) => loading'
           /\ (lastCall'.op = "handleConvert" /\ sent' # sent) => isConverting'
           /\ ResponseHandled => (~loading' /\ ~isConverting')
         ]_vars

\* The only conversion sent so far failed, its failure has been handled and
\* the flag is back to false.
C28_Witness_FlagClearedAfterFailure ==
    /\ page = "md-to-word"
    /\ lastCall.op = "response"
    /\ lastCall.resp[1].kind \in {"reject", "http"}
    /\ ~isConverting
    /\ error # <<>>
    /\ sent = 1


\* C29: in Start_application.ps1 and in start-application.sh the frontend
\* server is spawned exactly when the frontend directory exists and a package
\* manager was resolved; when either is missing the start step is skipped
\* with a message, and the run still completes, browser step reached, without
\* error.
C29_FrontendStartedOrSkipped ==
    (script \in {"sh", "ps1"} /\ "frontend_step" \in log) =>
        LET both == "frontend" \in fs /\ pkgMgr # ""
        IN  /\ "frontend_spawn" \in log <=> both
            /\ ~both => ("frontend_skip" \in log /\ "abort" \notin log)
            /\ (~both /\ pc = "exited" /\ "interrupted" \notin log)
                  => (BrowserStepDone /\ exitCode = 0)


\* C30: md-to-word: mdFiles is the list got by appending picked and dropped
\* files in arrival order, removing the element at the index on remove and
\* emptying on Clear All; a file whose name does not end in .md
\* (case-insensitive) is never in mdFiles.
C30_OnlyMdInList ==
    \A i \in 1..Len(mdFiles) : EndsWithMd(mdFiles[i].name)

===========================================================================
